---- MODULE Spec2Model ----
(***************************************************************************)
(* Model of the three validation scripts of the repository:                *)
(*   scripts/validate_config.py   (ConfigValidator)                        *)
(*   scripts/validate_content.py  (ContentValidator)                       *)
(*   scripts/validate_env.py      (EnvironmentValidator)                   *)
(* Each script is a sequential program; every specification below runs one  *)
(* of them from construction to process exit.                              *)
(*                                                                         *)
(* Text is modelled as a sequence of lexemes.  In the configuration text a  *)
(* lexeme is an identifier, a punctuation mark, a single digit, a blank or  *)
(* the newline; in markdown lines a lexeme is a single character.  The      *)
(* regular expressions of the source are transliterated piece by piece      *)
(* into operators over positions of such a sequence.                        *)
(***************************************************************************)
EXTENDS Integers, Sequences, FiniteSets, TLC

VARIABLES
    script,          \* the script that was started
    pc,              \* position of the running script
    config_path,     \* ConfigValidator.config_path: the file found at that path
    config_content,  \* ConfigValidator.config_content
    results,         \* ConfigValidator.results
    success,         \* main(): success
    exit_code,       \* value returned by main() and handed to sys.exit
    report,          \* what print_report / print_summary printed
    content_dir,     \* ContentValidator.content_dir: the directory found at that path
    markdown_files,  \* validate_all(): markdown_files
    file_index,      \* validate_all(): position of the for loop in markdown_files
    issues,          \* ContentValidator.issues
    stats,           \* ContentValidator.stats
    probe,           \* what the environment answered to the last check of validate()
    checks,          \* EnvironmentValidator.checks
    hugo_check,      \* check_hugo_version(): hugo_check
    hugo,            \* validate(): hugo_ok, hugo_msg
    go_check,        \* validate(): go_check
    python,          \* validate(): python_ok, python_msg
    git_check,       \* validate(): git_check
    git_config,      \* validate(): git_config_ok, git_config_msg
    go_mod,          \* validate(): go_mod_ok, go_mod_msg
    make_check,      \* validate(): make_check
    first_run        \* the findings of the run before this one on the same artifact, if any

configVars == <<config_path, config_content, results>>

contentVars == <<content_dir, markdown_files, file_index, issues, stats>>

envVars == <<probe, checks, hugo_check, hugo, go_check, python, git_check, git_config,
             go_mod, make_check>>

vars == <<script, pc, success, exit_code, report, configVars, contentVars, envVars,
          first_run>>

(***************************************************************************)
(* Bounds                                                                  *)
(***************************************************************************)
MaxConfigLines == 3

\* pieces of the configuration file, and lines of the content directory, of a
\* run that is repeated
MaxRerunPieces == 2

MaxRerunLines == 1

\* lines of a file whose code fences are scanned
MaxFenceLines == 4

\* files of one kind in a directory whose report is read
MaxTierFiles == 11

\* markdown files in the content directory
MaxFiles == 2

\* lines of markdown in the content directory, all files together
MaxLines == 2

(***************************************************************************)
(* Generic helpers over lexeme sequences                                    *)
(***************************************************************************)
NL == "\n"

None == "None"

IsSpace(t) == t \in {" ", NL}

RECURSIVE Join(_)
Join(ls) ==
    IF Len(ls) = 0 THEN <<>>
    ELSE IF Len(ls) = 1 THEN ls[1]
    ELSE ls[1] \o <<NL>> \o Join(Tail(ls))

RECURSIVE SeqsUpTo(_, _)
SeqsUpTo(S, n) ==
    IF n = 0 THEN {<<>>}
    ELSE LET shorter == SeqsUpTo(S, n - 1)
         IN  shorter \cup {Append(q, x) : q \in {r \in shorter : Len(r) = n - 1}, x \in S}

\* Python: sub in s
Contains(s, sub) ==
    \E i \in 1..(Len(s) - Len(sub) + 1) : SubSeq(s, i, i + Len(sub) - 1) = sub

\* positions where ^ matches under re.MULTILINE
LineStarts(s) == {1} \cup {i + 1 : i \in {k \in 1..Len(s) : s[k] = NL}}

\* positions where $ matches under re.MULTILINE
AtLineEnd(s, d) == d = Len(s) + 1 \/ (d <= Len(s) /\ s[d] = NL)

\* positions \s* can stop at when started at i
SkipSpace(s, i) == {j \in i..(Len(s) + 1) : \A k \in i..(j - 1) : IsSpace(s[k])}

\* positions .+ can stop at when started at i (no re.DOTALL)
DotPlus(s, i) == {j \in (i + 1)..(Len(s) + 1) : \A k \in i..(j - 1) : s[k] # NL}

\* positions after  name \s* = \s*  when name is looked for at a
AfterAssign(s, a, name) ==
    IF a <= Len(s) /\ s[a] = name
    THEN UNION {SkipSpace(s, b + 1) : b \in {x \in SkipSpace(s, a + 1) : x <= Len(s) /\ s[x] = "="}}
    ELSE {}

ValidationResult(p, m, sev) == [passed |-> p, message |-> m, severity |-> sev]

(***************************************************************************)
(* validate_config.py                                                      *)
(***************************************************************************)
required_fields ==
    << <<"baseURL", "Base URL must be defined for proper site generation">>,
       <<"title", "Site title is required for SEO and accessibility">>,
       <<"languageCode", "Language code required for proper HTML lang attribute">> >>

\* the search without its ^ anchor
SearchRequiredUnanchored(content, field) ==
    \E a \in 1..Len(content) :
        \E c \in AfterAssign(content, a, field) :
            \E d \in DotPlus(content, c) : AtLineEnd(content, d)

\* re.search(rf'^\s*{field}\s*=\s*.+$', content, re.MULTILINE)
SearchRequired(content, field) ==
    \E p \in LineStarts(content) : \E a \in SkipSpace(content, p) :
        \E c \in AfterAssign(content, a, field) :
            \E d \in DotPlus(content, c) : AtLineEnd(content, d)

RequiredResult(content, f) ==
    IF ~SearchRequired(content, f[1])
    THEN ValidationResult(FALSE, <<"Missing required field '", f[1], "': ", f[2]>>, "error")
    ELSE ValidationResult(TRUE, <<"Required field '", f[1], "' is present">>, "info")

validate_required_fields(content) ==
    [i \in 1..Len(required_fields) |-> RequiredResult(content, required_fields[i])]

validate_security_settings(content) ==
    (IF Contains(content, <<"unsafe", " ", "=", " ", "true">>)
     THEN <<ValidationResult(TRUE, <<"Unsafe HTML rendering enabled - ensure content is trusted">>, "warning")>>
     ELSE <<>>)
    \o
    (IF Contains(content, <<"rel", "=">>)
        /\ (Contains(content, <<"noreferrer">>) \/ Contains(content, <<"noopener">>))
     THEN <<ValidationResult(TRUE, <<"External links have security attributes (noreferrer/noopener)">>, "info")>>
     ELSE <<>>)

defensive_checks ==
    << <<"enableRobotsTXT", "Robots.txt should be enabled for SEO control">>,
       <<"enableGitInfo", "Git info provides useful metadata for debugging">> >>

\* re.search(rf'^\s*{field}\s*=\s*true', content, re.MULTILINE)
SearchDefault(content, field) ==
    \E p \in LineStarts(content) : \E a \in SkipSpace(content, p) :
        \E c \in AfterAssign(content, a, field) : c <= Len(content) /\ content[c] = "true"

DefaultResult(content, f) ==
    IF SearchDefault(content, f[1])
    THEN ValidationResult(TRUE, <<"Defensive default enabled: ", f[1]>>, "info")
    ELSE ValidationResult(FALSE, <<"Recommended: Enable ", f[1], " - ", f[2]>>, "warning")

validate_defensive_defaults(content) ==
    [i \in 1..Len(defensive_checks) |-> DefaultResult(content, defensive_checks[i])]

MenuHeader == "[[menu.main]]"

Digits == {"0", "1", "2", "3", "4", "5", "6", "7", "8", "9"}

DigitValue(d) ==
    CASE d = "0" -> 0 [] d = "1" -> 1 [] d = "2" -> 2 [] d = "3" -> 3 [] d = "4" -> 4
      [] d = "5" -> 5 [] d = "6" -> 6 [] d = "7" -> 7 [] d = "8" -> 8 [] d = "9" -> 9

\* int(): base-10 value of a digit string
RECURSIVE ParseInt(_)
ParseInt(ds) ==
    IF Len(ds) = 0 THEN 0
    ELSE 10 * ParseInt(SubSeq(ds, 1, Len(ds) - 1)) + DigitValue(ds[Len(ds)])

\* $ without re.MULTILINE: the end of the text, or just before a final newline
AtTextEnd(s, e) == e = Len(s) + 1 \/ (e = Len(s) /\ s[e] = NL)

\* the lazy (.*?) stops at the first position where the lookahead holds
MenuItemEnd(s, from) ==
    CHOOSE e \in from..(Len(s) + 1) :
        /\ (e <= Len(s) /\ s[e] = MenuHeader) \/ AtTextEnd(s, e)
        /\ \A x \in from..(e - 1) : ~((x <= Len(s) /\ s[x] = MenuHeader) \/ AtTextEnd(s, x))

\* re.findall(r'\[\[menu\.main\]\](.*?)(?=\[\[menu\.main\]\]|$)', content, re.DOTALL)
RECURSIVE FindMenuItems(_, _)
FindMenuItems(s, from) ==
    LET heads == {p \in from..Len(s) : s[p] = MenuHeader}
    IN  IF heads = {} THEN <<>>
        ELSE LET p == CHOOSE x \in heads : \A y \in heads : x <= y
                 e == MenuItemEnd(s, p + 1)
             IN  <<SubSeq(s, p + 1, e - 1)>> \o FindMenuItems(s, e)

\* \d+ is greedy: the longest run of digits starting at c
DigitRunEnd(s, c) ==
    CHOOSE e \in c..Len(s) :
        /\ \A k \in c..e : s[k] \in Digits
        /\ (e = Len(s) \/ s[e + 1] \notin Digits)

\* re.search(r'weight\s*=\s*(\d+)', item): group(1) of the leftmost match, <<>> without one
SearchWeight(item) ==
    LET hits == {a \in 1..Len(item) :
                    \E c \in AfterAssign(item, a, "weight") : c <= Len(item) /\ item[c] \in Digits}
    IN  IF hits = {} THEN <<>>
        ELSE LET a == CHOOSE x \in hits : \A y \in hits : x <= y
                 c == CHOOSE x \in AfterAssign(item, a, "weight") : x <= Len(item) /\ item[x] \in Digits
             IN  SubSeq(item, c, DigitRunEnd(item, c))

RECURSIVE CollectWeights(_)
CollectWeights(items) ==
    IF Len(items) = 0 THEN <<>>
    ELSE LET m == SearchWeight(items[1])
         IN  (IF Len(m) = 0 THEN <<>> ELSE <<ParseInt(m)>>) \o CollectWeights(Tail(items))

MenuWeights(content) == CollectWeights(FindMenuItems(content, 1))

SeqToSet(s) == {s[i] : i \in 1..Len(s)}

DuplicateWarning ==
    ValidationResult(FALSE, <<"Duplicate menu weights found - may cause ordering issues">>, "warning")

\* one warning for every repeated weight
validate_menu_structure_per_duplicate(content) ==
    LET weights == MenuWeights(content)
        extra   == Len(weights) - Cardinality(SeqToSet(weights))
    IN  IF Len(weights) > 0
        THEN IF extra = 0
             THEN <<ValidationResult(TRUE,
                      <<"Menu weights are unique (", ToString(Len(weights)), " items)">>, "info")>>
             ELSE [i \in 1..extra |-> DuplicateWarning]
        ELSE <<>>

validate_menu_structure(content) ==
    LET weights == MenuWeights(content)
    IN  IF Len(weights) > 0
        THEN IF Len(weights) = Cardinality(SeqToSet(weights))
             THEN <<ValidationResult(TRUE,
                      <<"Menu weights are unique (", ToString(Len(weights)), " items)">>, "info")>>
             ELSE <<DuplicateWarning>>
        ELSE <<>>

\* re.search(r'type\s*=\s*["\']search["\']', content)
SearchSearchType(content) ==
    \E a \in 1..Len(content) : \E c \in AfterAssign(content, a, "type") :
        /\ c + 2 <= Len(content)
        /\ content[c] \in {"\"", "'"}
        /\ content[c + 1] = "search"
        /\ content[c + 2] \in {"\"", "'"}

validate_accessibility(content) ==
    (IF Contains(content, <<"languageCode">>) \/ Contains(content, <<"defaultContentLanguage">>)
     THEN <<ValidationResult(TRUE, <<"Language configuration present for accessibility">>, "info")>>
     ELSE <<>>)
    \o
    (IF SearchSearchType(content)
     THEN <<ValidationResult(TRUE, <<"Search functionality configured (enhances accessibility)">>, "info")>>
     ELSE <<>>)

\* any finding that did not pass counts, whatever its severity
has_errors_any_severity(rs) == \E i \in 1..Len(rs) : ~rs[i].passed

\* any(r.severity == "error" and not r.passed for r in self.results)
has_errors(rs) == \E i \in 1..Len(rs) : rs[i].severity = "error" /\ ~rs[i].passed

Messages(s) == [i \in 1..Len(s) |-> s[i].message]

Take(s, n) == SubSeq(s, 1, IF Len(s) < n THEN Len(s) ELSE n)

InfoShown == 5

ConfigReport(rs) ==
    LET IsErr(r)  == r.severity = "error" /\ ~r.passed
        IsWarn(r) == r.severity = "warning" /\ ~r.passed
        IsInfo(r) == r.severity = "info" /\ r.passed
        IsPassed(r) == r.passed
        errors   == SelectSeq(rs, IsErr)
        warnings == SelectSeq(rs, IsWarn)
        info     == SelectSeq(rs, IsInfo)
        quiet    == Len(info) > 0 /\ ~(Len(errors) > 0 \/ Len(warnings) > 0)
    IN  [errors   |-> Messages(errors),
         warnings |-> Messages(warnings),
         info     |-> IF quiet THEN Messages(Take(info, InfoShown)) ELSE <<>>,
         more     |-> IF quiet /\ Len(info) > InfoShown THEN Len(info) - InfoShown ELSE 0,
         summary  |-> <<Len(SelectSeq(rs, IsPassed)), Len(rs)>>,
         status   |-> IF Len(errors) > 0 THEN "FAILED"
                      ELSE IF Len(warnings) > 0 THEN "PASSED WITH WARNINGS"
                      ELSE "PASSED"]

\* pieces a configuration file is made of: a line, or a block of lines
ConfigLines ==
    { <<"baseURL", " ", "=", " ", "v">>,
      <<"baseURL", " ", "=">>,
      <<" ", "title", "=", "v">>,
      <<"#", "title", " ", "=", " ", "v">>,
      <<"languageCode", " ", "=", " ", "v">>,
      <<"baseURL", "=", "v", NL, "title", " ", "=", " ", "v", NL,
        "languageCode", "=", "v">>,
      <<"defaultContentLanguage", "=", "v", NL, "type", " ", "=", " ", "'", "search", "'">>,
      <<"unsafe", " ", "=", " ", "true", NL, "rel", "=", "noopener">>,
      <<"enableRobotsTXT", " ", "=", " ", "true", NL, "enableGitInfo", "=", "true">>,
      <<MenuHeader, NL, "weight", " ", "=", " ", "1">>,
      <<MenuHeader, NL, "weight", "=", "2">>,
      <<MenuHeader, NL, "weight", " ", "=", " ", "0", "2">>,
      <<MenuHeader, NL, "weight", " ", "=", " ", "3">>,
      <<MenuHeader, NL, "name", " ", "=", " ", "v">> }

NoReport == [status |-> None]

load_config_error(file) ==
    IF file.status = "missing"
    THEN <<ValidationResult(FALSE, <<"Configuration file not found: ", "config_path">>, "error")>>
    ELSE IF file.status = "unreadable"
    THEN <<ValidationResult(FALSE, <<"Failed to read config: ", "e">>, "error")>>
    ELSE <<>>

\* validate(): load_config(); a failed load returns False at once
LoadConfig ==
    /\ pc = "load_config"
    /\ results' = results \o load_config_error(config_path)
    /\ IF config_path.status = "ok"
       THEN /\ config_content' = config_path.text
            /\ success' = success
            /\ pc' = "validate_required_fields"
       ELSE /\ config_content' = config_content
            /\ success' = FALSE
            /\ pc' = "print_report"
    /\ UNCHANGED <<config_path, exit_code, report, contentVars, envVars, script, first_run>>

ValidateRequiredFields ==
    /\ pc = "validate_required_fields"
    /\ results' = results \o validate_required_fields(config_content)
    /\ pc' = "validate_security_settings"
    /\ UNCHANGED <<config_path, config_content, success, exit_code, report, contentVars, envVars, script, first_run>>

ValidateSecuritySettings ==
    /\ pc = "validate_security_settings"
    /\ results' = results \o validate_security_settings(config_content)
    /\ pc' = "validate_defensive_defaults"
    /\ UNCHANGED <<config_path, config_content, success, exit_code, report, contentVars, envVars, script, first_run>>

ValidateDefensiveDefaults ==
    /\ pc = "validate_defensive_defaults"
    /\ results' = results \o validate_defensive_defaults(config_content)
    /\ pc' = "validate_menu_structure"
    /\ UNCHANGED <<config_path, config_content, success, exit_code, report, contentVars, envVars, script, first_run>>

ValidateMenuStructure ==
    /\ pc = "validate_menu_structure"
    /\ results' = results \o validate_menu_structure(config_content)
    /\ pc' = "validate_accessibility"
    /\ UNCHANGED <<config_path, config_content, success, exit_code, report, contentVars, envVars, script, first_run>>

ValidateAccessibility ==
    /\ pc = "validate_accessibility"
    /\ results' = results \o validate_accessibility(config_content)
    /\ pc' = "overall_result"
    /\ UNCHANGED <<config_path, config_content, success, exit_code, report, contentVars, envVars, script, first_run>>

\* validate(): return not has_errors
ConfigOverallResult ==
    /\ pc = "overall_result"
    /\ success' = ~has_errors(results)
    /\ pc' = "print_report"
    /\ UNCHANGED <<configVars, exit_code, report, contentVars, envVars, script, first_run>>

ConfigPrintReport ==
    /\ pc = "print_report"
    /\ report' = ConfigReport(results)
    /\ pc' = "exit"
    /\ UNCHANGED <<configVars, success, exit_code, contentVars, envVars, script, first_run>>

exit_status(ok) == IF ok THEN 0 ELSE 1

ConfigExit ==
    /\ pc = "exit"
    /\ exit_code' = exit_status(success)
    /\ pc' = "done"
    /\ UNCHANGED <<configVars, success, report, contentVars, envVars, script, first_run>>

NextConfig ==
    \/ LoadConfig
    \/ ValidateRequiredFields
    \/ ValidateSecuritySettings
    \/ ValidateDefensiveDefaults
    \/ ValidateMenuStructure
    \/ ValidateAccessibility
    \/ ConfigOverallResult
    \/ ConfigPrintReport
    \/ ConfigExit

(***************************************************************************)
(* validate_content.py                                                     *)
(***************************************************************************)
MAX_DISPLAYED_ISSUES == 10

MAX_URL_DISPLAY_LENGTH == 50

ContentIssue(fp, ln, sev, cat, msg) ==
    [file_path |-> fp, line_number |-> ln, severity |-> sev, category |-> cat, message |-> msg]

\* str.startswith
StartsWith(s, prefix) == Len(s) >= Len(prefix) /\ SubSeq(s, 1, Len(prefix)) = prefix

\* str.strip
RECURSIVE Strip(_)
Strip(s) ==
    IF Len(s) > 0 /\ IsSpace(s[1]) THEN Strip(Tail(s))
    ELSE IF Len(s) > 0 /\ IsSpace(s[Len(s)]) THEN Strip(SubSeq(s, 1, Len(s) - 1))
    ELSE s

\* str.split('\n')
RECURSIVE SplitLines(_)
SplitLines(s) ==
    IF \A k \in 1..Len(s) : s[k] # NL THEN <<s>>
    ELSE LET k == CHOOSE x \in 1..Len(s) : s[x] = NL /\ \A y \in 1..(x - 1) : s[y] # NL
         IN  <<SubSeq(s, 1, k - 1)>> \o SplitLines(SubSeq(s, k + 1, Len(s)))

Minimum(S) == CHOOSE x \in S : \A y \in S : x <= y

Maximum(S) == CHOOSE x \in S : \A y \in S : x >= y

\* first position at or after from that holds ch, 0 when there is none
FirstAt(line, from, ch) ==
    LET hits == {k \in from..Len(line) : line[k] = ch}
    IN  IF hits = {} THEN 0 ELSE Minimum(hits)

\* the match of  \[([^\]]{minText,})\]\(([^\)]+)\)  that starts at i, if any, given
\* the first ] after i at j and the first ) after the ( at k (0 when there is none)
BracketSpan(line, i, minText, start, j, k) ==
    IF /\ i <= Len(line) /\ line[i] = "["
       /\ j # 0 /\ j - (i + 1) >= minText
       /\ j + 1 <= Len(line) /\ line[j + 1] = "("
       /\ k # 0 /\ k - (j + 2) >= 1
    THEN <<[text |-> SubSeq(line, i + 1, j - 1), url |-> SubSeq(line, j + 2, k - 1),
            start |-> start, stop |-> k]>>
    ELSE <<>>

\* the bracketed text runs to the first ], the url to the first ) behind it
BracketMatch(line, i, minText, start) ==
    BracketSpan(line, i, minText, start,
                FirstAt(line, i + 1, "]"),
                FirstAt(line, FirstAt(line, i + 1, "]") + 2, ")"))

\* link_pattern = r'\[([^\]]+)\]\(([^\)]+)\)'
LinkMatchAt(line, i) == BracketMatch(line, i, 1, i)

\* image_pattern = r'!\[([^\]]*)\]\(([^\)]+)\)'
ImageMatchAt(line, i) ==
    IF i <= Len(line) /\ line[i] = "!" THEN BracketMatch(line, i + 1, 0, i) ELSE <<>>

\* the match of pattern at i: image_pattern or link_pattern
MatchAt(line, i, pattern) ==
    IF pattern = "image_pattern" THEN ImageMatchAt(line, i) ELSE LinkMatchAt(line, i)

\* the character a match of pattern starts with
FirstChar(pattern) == IF pattern = "image_pattern" THEN "!" ELSE "["

\* re.finditer: the start positions, those that hold the first character of the
\* pattern, are tried from left to right; the search goes on behind a match
RECURSIVE FindIter(_, _, _)
FindIter(line, from, pattern) ==
    LET p == FirstAt(line, from, FirstChar(pattern))
        m == MatchAt(line, p, pattern)
    IN  IF p = 0 THEN <<>>
        ELSE IF Len(m) = 0 THEN FindIter(line, p + 1, pattern)
        ELSE m \o FindIter(line, m[1].stop + 1, pattern)

\* for line_num, line in enumerate(lines, 1): for match in re.finditer(pattern, line)
RECURSIVE ScanLines(_, _, _)
ScanLines(lines, n, pattern) ==
    IF n > Len(lines) THEN <<>>
    ELSE LET ms == FindIter(lines[n], 1, pattern)
         IN  [x \in 1..Len(ms) |-> [line_num |-> n, text |-> ms[x].text, url |-> ms[x].url]]
             \o ScanLines(lines, n + 1, pattern)

RECURSIVE Flatten(_)
Flatten(ss) == IF Len(ss) = 0 THEN <<>> ELSE ss[1] \o Flatten(Tail(ss))

IndexName == [stem |-> <<"_", "i", "n", "d", "e", "x">>, suffix |-> ".md"]

_check_frontmatter(fp, content) ==
    IF ~(StartsWith(content, <<"-", "-", "-">>) \/ StartsWith(content, <<"+", "+", "+">>))
       /\ fp.name # IndexName
    THEN <<ContentIssue(fp, 1, "warning", "structure",
             <<"No frontmatter detected - consider adding title and metadata">>)>>
    ELSE <<>>

Http == <<"h", "t", "t", "p", ":", "/", "/">>

Https == <<"h", "t", "t", "p", "s", ":", "/", "/">>

Mailto == <<"m", "a", "i", "l", "t", "o", ":">>

Ellipsis == "..."

IsSkipped(url) == StartsWith(url, <<"#">>) \/ StartsWith(url, Mailto)

IsExternal(url) == StartsWith(url, Http) \/ StartsWith(url, Https)

\* f"Non-HTTPS link found: {link_url[:MAX_URL_DISPLAY_LENGTH]}..."
NonHttpsMessage(url) ==
    <<"Non-HTTPS link found: ">> \o Take(url, MAX_URL_DISPLAY_LENGTH) \o <<Ellipsis>>

EmptyLinkText(fp, ln) ==
    ContentIssue(fp, ln, "warning", "accessibility",
                 <<"Link has empty text - bad for screen readers">>)

\* the body of the inner loop of _check_links for one match
LinkIssues(fp, m) ==
    IF IsSkipped(m.url) THEN <<>>
    ELSE (IF IsExternal(m.url)
          THEN IF StartsWith(m.url, Http)
               THEN <<ContentIssue(fp, m.line_num, "warning", "link", NonHttpsMessage(m.url))>>
               ELSE <<>>
          ELSE IF /\ ~StartsWith(m.url, <<"/">>)
                  /\ ~StartsWith(m.url, <<".", ".", "/">>)
                  /\ "." \in SeqToSet(m.url)
               THEN <<ContentIssue(fp, m.line_num, "info", "link",
                        <<"Relative link without path prefix: ">> \o m.url)>>
               ELSE <<>>)
         \o (IF Len(Strip(m.text)) = 0 THEN <<EmptyLinkText(fp, m.line_num)>> ELSE <<>>)

_check_links(fp, lines) ==
    LET ms == ScanLines(lines, 1, "link_pattern")
        counted == SelectSeq(ms, LAMBDA m : ~IsSkipped(m.url))
    IN  [issues   |-> Flatten([x \in 1..Len(ms) |-> LinkIssues(fp, ms[x])]),
         external |-> Len(SelectSeq(counted, LAMBDA m : IsExternal(m.url))),
         internal |-> Len(SelectSeq(counted, LAMBDA m : ~IsExternal(m.url)))]

\* re.match(r'^(#{1,6})\s+(.+)$', line): len(group(1)), 0 when there is no match
HeadingLevel(line) ==
    LET levels == {h \in 1..6 :
                      /\ h <= Len(line)
                      /\ \A k \in 1..h : line[k] = "#"
                      /\ \E b \in SkipSpace(line, h + 1) :
                            b > h + 1 /\ \E d \in DotPlus(line, b) : d = Len(line) + 1}
    IN  IF levels = {} THEN 0 ELSE Maximum(levels)

RECURSIVE CollectHeadings(_, _)
CollectHeadings(lines, n) ==
    IF n > Len(lines) THEN <<>>
    ELSE (IF HeadingLevel(lines[n]) > 0
          THEN <<[level |-> HeadingLevel(lines[n]), line_num |-> n]>> ELSE <<>>)
         \o CollectHeadings(lines, n + 1)

RECURSIVE HeadingJumps(_, _, _)
HeadingJumps(fp, headings, prev_level) ==
    IF Len(headings) = 0 THEN <<>>
    ELSE LET level == headings[1].level
         IN  (IF level > prev_level + 1 /\ prev_level > 0
              THEN <<ContentIssue(fp, headings[1].line_num, "info", "structure",
                       <<"Heading level jump from h", ToString(prev_level), " to h",
                         ToString(level), " - may affect accessibility">>)>>
              ELSE <<>>)
             \o HeadingJumps(fp, Tail(headings), level)

_check_headings(fp, lines) == HeadingJumps(fp, CollectHeadings(lines, 1), 0)

\* the backtick character
Backtick == "BACKTICK"

Fence == <<Backtick, Backtick, Backtick>>

RECURSIVE CodeBlocks(_, _, _, _)
CodeBlocks(fp, lines, n, in_code_block) ==
    IF n > Len(lines) THEN <<>>
    ELSE LET stripped == Strip(lines[n])
         IN  IF StartsWith(stripped, Fence)
             THEN IF ~in_code_block
                  THEN (IF Len(Strip(SubSeq(stripped, 4, Len(stripped)))) = 0
                        THEN <<ContentIssue(fp, n, "info", "formatting",
                                 <<"Code block without language specification - consider adding for syntax highlighting">>)>>
                        ELSE <<>>)
                       \o CodeBlocks(fp, lines, n + 1, TRUE)
                  ELSE CodeBlocks(fp, lines, n + 1, FALSE)
             ELSE CodeBlocks(fp, lines, n + 1, in_code_block)

\* _check_code_blocks without the flag: every fence with nothing behind the
\* backticks is reported, a closing one too
_check_code_blocks_every_fence(fp, lines) ==
    Flatten([n \in 1..Len(lines) |->
        IF /\ StartsWith(Strip(lines[n]), Fence)
           /\ Len(Strip(SubSeq(Strip(lines[n]), 4, Len(Strip(lines[n]))))) = 0
        THEN <<ContentIssue(fp, n, "info", "formatting",
                 <<"Code block without language specification - consider adding for syntax highlighting">>)>>
        ELSE <<>>])

_check_code_blocks(fp, lines) == CodeBlocks(fp, lines, 1, FALSE)

\* f"Image without alt text: {display_url}{truncation_suffix} (bad for screen readers)"
ImageMessage(url) ==
    <<"Image without alt text: ">>
    \o (IF Len(url) > MAX_URL_DISPLAY_LENGTH THEN Take(url, MAX_URL_DISPLAY_LENGTH) ELSE url)
    \o (IF Len(url) > MAX_URL_DISPLAY_LENGTH THEN <<Ellipsis>> ELSE <<>>)
    \o <<" (bad for screen readers)">>

\* _check_accessibility with the alt text tested unstripped
_check_accessibility_empty_alt_only(fp, lines) ==
    LET ms == ScanLines(lines, 1, "image_pattern")
        ImageIssues(m) ==
            IF Len(m.text) = 0
            THEN <<ContentIssue(fp, m.line_num, "warning", "accessibility", ImageMessage(m.url))>>
            ELSE <<>>
    IN  [issues |-> Flatten([x \in 1..Len(ms) |-> ImageIssues(ms[x])]),
         images |-> Len(ms)]

_check_accessibility(fp, lines) ==
    LET ms == ScanLines(lines, 1, "image_pattern")
        ImageIssues(m) ==
            IF Len(Strip(m.text)) = 0
            THEN <<ContentIssue(fp, m.line_num, "warning", "accessibility", ImageMessage(m.url))>>
            ELSE <<>>
    IN  [issues |-> Flatten([x \in 1..Len(ms) |-> ImageIssues(ms[x])]),
         images |-> Len(ms)]

ReadError(fp) ==
    <<ContentIssue(fp, 0, "error", "structure", <<"Failed to read file: ", "e">>)>>

\* validate_file with the exception handler left out: a failed read adds nothing
validate_file_unhandled(fp, file, st) ==
    IF ~file.readable
    THEN [issues |-> <<>>, stats |-> st]
    ELSE LET content == file.text
             lines   == SplitLines(content)
             links   == _check_links(fp, lines)
             access  == _check_accessibility(fp, lines)
         IN  [issues |-> _check_frontmatter(fp, content) \o links.issues
                         \o _check_headings(fp, lines) \o _check_code_blocks(fp, lines)
                         \o access.issues,
              stats  |-> [files_checked        |-> st.files_checked + 1,
                          internal_links_found |-> st.internal_links_found + links.internal,
                          external_links_found |-> st.external_links_found + links.external,
                          images_found         |-> st.images_found + access.images]]

\* validate_file: the issues it appends and the stats it leaves
validate_file(fp, file, st) ==
    IF ~file.readable
    THEN [issues |-> ReadError(fp), stats |-> st]
    ELSE LET content == file.text
             lines   == SplitLines(content)
             links   == _check_links(fp, lines)
             access  == _check_accessibility(fp, lines)
         IN  [issues |-> _check_frontmatter(fp, content) \o links.issues
                         \o _check_headings(fp, lines) \o _check_code_blocks(fp, lines)
                         \o access.issues,
              stats  |-> [files_checked        |-> st.files_checked + 1,
                          internal_links_found |-> st.internal_links_found + links.internal,
                          external_links_found |-> st.external_links_found + links.external,
                          images_found         |-> st.images_found + access.images]]

\* warnings fail the run as well
content_passed_strict(is) ==
    Len(SelectSeq(is, LAMBDA i : i.severity \in {"error", "warning"})) = 0

\* len([i for i in self.issues if i.severity == "error"]) == 0
content_passed(is) == Len(SelectSeq(is, LAMBDA i : i.severity = "error")) = 0

\* the lines print_report prints for one severity tier
\* a tier printed whole, with no suffix line
TierLines_uncapped(tier) ==
    [shown |-> [x \in 1..Len(tier) |->
                   <<tier[x].file_path, tier[x].line_number, tier[x].message>>],
     more  |-> 0]

TierLines(tier) ==
    [shown |-> [x \in 1..Len(Take(tier, MAX_DISPLAYED_ISSUES)) |->
                   <<tier[x].file_path, tier[x].line_number, tier[x].message>>],
     more  |-> IF Len(tier) > MAX_DISPLAYED_ISSUES THEN Len(tier) - MAX_DISPLAYED_ISSUES ELSE 0]

ContentReport(is, st) ==
    LET errors   == SelectSeq(is, LAMBDA i : i.severity = "error")
        warnings == SelectSeq(is, LAMBDA i : i.severity = "warning")
        info     == SelectSeq(is, LAMBDA i : i.severity = "info")
    IN  [stats    |-> st,
         errors   |-> TierLines(errors),
         warnings |-> TierLines(warnings),
         info     |-> Len(info),
         status   |-> IF Len(errors) > 0 THEN "FAILED"
                      ELSE IF Len(warnings) > 0 THEN "PASSED WITH WARNINGS"
                      ELSE "PASSED"]

Fill(n) == [i \in 1..n |-> "a"]

\* an http url of n characters
HttpUrl(n) == Http \o Fill(n - Len(Http))

Link(text, url) == <<"[">> \o text \o <<"]", "(">> \o url \o <<")">>

Image(alt, url) == <<"!">> \o Link(alt, url)

\* lines a markdown file is made of: front matter, links and images of every
\* kind the rules tell apart, headings and code fences
ContentLines ==
    { <<"-", "-", "-">>,
      Link(<<"t">>, HttpUrl(MAX_URL_DISPLAY_LENGTH)) \o Link(<<>>, Https \o <<"a">>),
      Link(<<"t">>, HttpUrl(MAX_URL_DISPLAY_LENGTH + 1)) \o Link(<<"t">>, <<"a", ".", "b">>),
      Link(<<" ">>, Https \o <<"a">>) \o Link(<<" ">>, <<"#", "a">>),
      Image(<<>>, <<"i">>) \o Image(<<" ">>, Fill(MAX_URL_DISPLAY_LENGTH + 1))
          \o Image(<<"c">>, Https \o <<"a">>),
      <<"#", " ", "H">>,
      <<"#", "#", "#", " ", "H">>,
      Fence,
      <<" ">> \o Fence \o <<"p", "y">> }

PageName == [stem |-> <<"p", "a", "g", "e">>, suffix |-> ".md"]

NotesName == [stem |-> <<"n", "o", "t", "e", "s">>, suffix |-> ".txt"]

MarkdownNames == {IndexName, PageName}

\* a file of the directory before its lines are chosen
FileShapes ==
    {[name |-> nm, readable |-> TRUE, nlines |-> k] : nm \in MarkdownNames, k \in 1..MaxLines}
    \cup {[name |-> PageName, readable |-> FALSE, nlines |-> 0]}
    \cup {[name |-> NotesName, readable |-> TRUE, nlines |-> 0]}

RECURSIVE TotalLines(_)
TotalLines(shapes) ==
    IF Len(shapes) = 0 THEN 0 ELSE shapes[1].nlines + TotalLines(Tail(shapes))

\* listings of at most MaxFiles files that hold at most MaxLines lines together
ListShapes == {sh \in SeqsUpTo(FileShapes, MaxFiles) : TotalLines(sh) <= MaxLines}

\* the files of a listing, their lines taken in order from pool
BuildFiles(shapes, pool) ==
    [i \in 1..Len(shapes) |->
        LET before == TotalLines(SubSeq(shapes, 1, i - 1))
        IN  [name     |-> shapes[i].name,
             readable |-> shapes[i].readable,
             text     |-> Join([x \in 1..shapes[i].nlines |-> pool[before + x]])]]

\* list(self.content_dir.rglob("*.md")), [] when the directory does not exist
find_markdown_files(dir) ==
    IF ~dir.exists THEN <<>>
    ELSE SelectSeq([i \in 1..Len(dir.files) |-> [id |-> i, name |-> dir.files[i].name]],
                   LAMBDA p : p.name.suffix = ".md")

\* validate_all(): markdown_files = self.find_markdown_files(); nothing found returns True
FindMarkdownFiles ==
    /\ pc = "find_markdown_files"
    /\ markdown_files' = find_markdown_files(content_dir)
    /\ IF Len(markdown_files') = 0
       THEN success' = TRUE /\ pc' = "print_report" /\ file_index' = file_index
       ELSE success' = success /\ pc' = "validate_file" /\ file_index' = 1
    /\ UNCHANGED <<content_dir, issues, stats, exit_code, report, configVars, envVars, script, first_run>>

\* validate_all(): one turn of  for file_path in markdown_files: self.validate_file(file_path)
ValidateFile ==
    /\ pc = "validate_file"
    /\ LET fp  == markdown_files[file_index]
           out == validate_file(fp, content_dir.files[fp.id], stats)
       IN  /\ issues' = issues \o out.issues
           /\ stats' = out.stats
    /\ IF file_index < Len(markdown_files)
       THEN file_index' = file_index + 1 /\ pc' = pc
       ELSE file_index' = file_index /\ pc' = "overall_result"
    /\ UNCHANGED <<content_dir, markdown_files, success, exit_code, report, configVars, envVars, script, first_run>>

\* validate_all(): return len(errors) == 0
ContentOverallResult ==
    /\ pc = "overall_result"
    /\ success' = content_passed(issues)
    /\ pc' = "print_report"
    /\ UNCHANGED <<contentVars, exit_code, report, configVars, envVars, script, first_run>>

ContentPrintReport ==
    /\ pc = "print_report"
    /\ report' = ContentReport(issues, stats)
    /\ pc' = "exit"
    /\ UNCHANGED <<contentVars, success, exit_code, configVars, envVars, script, first_run>>

ContentExit ==
    /\ pc = "exit"
    /\ exit_code' = exit_status(success)
    /\ pc' = "done"
    /\ UNCHANGED <<contentVars, success, report, configVars, envVars, script, first_run>>

NextContent ==
    \/ FindMarkdownFiles
    \/ ValidateFile
    \/ ContentOverallResult
    \/ ContentPrintReport
    \/ ContentExit

(***************************************************************************)
(* validate_env.py                                                         *)
(***************************************************************************)
\* Optional[str]: <<>> is None, <<s>> is the string s
Nothing == <<>>

Some(s) == <<s>>

\* truth value of an Optional[str]: None and "" are false
Truthy(opt) == Len(opt) = 1 /\ Len(opt[1]) > 0

ToolCheck(tool, required, found, version, message) ==
    [tool |-> tool, required |-> required, found |-> found,
     version |-> version, message |-> message]

\* subprocess.run: the process completed, or run raised
Completed(rc, out, err) ==
    [outcome |-> "completed", returncode |-> rc, stdout |-> out, stderr |-> err]

RunRaised(exc) == [outcome |-> exc, returncode |-> 0, stdout |-> <<>>, stderr |-> <<>>]

NotRun == RunRaised("not run")

Raised(run) == run.outcome # "completed"

Exceptions == {"TimeoutExpired", "FileNotFoundError"}

\* what `<cmd> <version_arg>` can do: print the version, print to stderr only,
\* or hang until the timeout
VersionRuns(cmd) ==
    { Completed(0, <<cmd, " ", "v1", NL, "built", " ", "today", NL>>, <<>>),
      Completed(1, <<>>, <<"usage">>),
      RunRaised("TimeoutExpired") }

\* hugo version, which may also print nothing, fail to start, or name the
\* extended build
HugoRuns ==
    VersionRuns("hugo")
    \cup { Completed(0, <<>>, <<>>),
           RunRaised("FileNotFoundError"),
           Completed(0, <<"hugo", " ", "v1", "+", "extended", NL>>, <<>>),
           Completed(0, <<"Hugo", " ", "v1", "+", "Extended">>, <<>>) }

\* a version command that never returns makes the tool count as missing
check_command_hang_not_found(cmd, required, onPath, run) ==
    IF onPath /\ ~Raised(run)
    THEN LET output == IF Len(run.stdout) > 0 THEN run.stdout ELSE run.stderr
         IN  ToolCheck(cmd, required, TRUE,
                       IF Len(output) > 0 THEN Some(SplitLines(Strip(output))[1])
                       ELSE Some(<<"Unknown">>),
                       Nothing)
    ELSE ToolCheck(cmd, required, FALSE, Nothing, Some(<<"Not found in PATH">>))

\* check_command: onPath is shutil.which(cmd) is not None, run what subprocess.run did
check_command(cmd, required, onPath, run) ==
    IF onPath
    THEN IF Raised(run)
         THEN ToolCheck(cmd, required, TRUE, Some(<<"Unknown">>),
                        Some(<<"Found but version check failed: ", run.outcome>>))
         ELSE LET output == IF Len(run.stdout) > 0 THEN run.stdout ELSE run.stderr
              IN  ToolCheck(cmd, required, TRUE,
                            IF Len(output) > 0 THEN Some(SplitLines(Strip(output))[1])
                            ELSE Some(<<"Unknown">>),
                            Nothing)
    ELSE ToolCheck(cmd, required, FALSE, Nothing, Some(<<"Not found in PATH">>))

\* str.lower, word by word
LowerWord(w) ==
    CASE w = "Extended" -> "extended"
      [] w = "Hugo" -> "hugo"
      [] OTHER -> w

Lower(s) == [i \in 1..Len(s) |-> LowerWord(s[i])]

\* the text an f-string shows for an Optional[str]
Shown(opt) == IF Len(opt) = 0 THEN <<"None">> ELSE opt[1]

Verdict(ok, msg) == [ok |-> ok, msg |-> msg]

check_hugo_version(check) ==
    IF ~check.found THEN Verdict(FALSE, <<"Hugo not installed">>)
    ELSE IF Truthy(check.version) /\ "extended" \in SeqToSet(Lower(check.version[1]))
    THEN Verdict(TRUE, <<"Hugo extended found: ">> \o Shown(check.version))
    ELSE Verdict(FALSE, <<"Hugo extended required but found: ">> \o Shown(check.version))

\* what `python3 --version` can do
PythonRuns ==
    { Completed(0, <<"Python", " ", "3", ".", "7", ".", "1", NL>>, <<>>),
      Completed(0, <<"Python", " ", "3", ".", "1", "2", ".", "0", NL>>, <<>>),
      Completed(0, <<"Python", " ", "3", ".", "6", ".", "9", NL>>, <<>>),
      Completed(0, <<"Python", " ", "4", ".", "0", ".", "0", NL>>, <<>>),
      Completed(0, <<"Python", " ", "2", ".", "7", NL>>, <<>>),
      Completed(0, <<>>, <<"Python", " ", "2", ".", "7", NL>>),
      Completed(127, <<>>, <<"not", " ", "found">>) }
    \cup {RunRaised(e) : e \in Exceptions}

\* re.search(r'Python (\d+)\.(\d+)', s): the two groups of the leftmost match
SearchPython(s) ==
    LET IsMatch(a) ==
            /\ a + 2 <= Len(s) /\ s[a] = "Python" /\ s[a + 1] = " " /\ s[a + 2] \in Digits
            /\ LET e == DigitRunEnd(s, a + 2)
               IN  e + 2 <= Len(s) /\ s[e + 1] = "." /\ s[e + 2] \in Digits
        hits == {a \in 1..Len(s) : IsMatch(a)}
    IN  IF hits = {} THEN <<>>
        ELSE LET a == Minimum(hits)
                 e == DigitRunEnd(s, a + 2)
             IN  <<SubSeq(s, a + 2, e), SubSeq(s, e + 2, DigitRunEnd(s, e + 2))>>

check_python_version(run) ==
    IF Raised(run) THEN Verdict(FALSE, <<"Python check failed: ", run.outcome>>)
    ELSE LET version_str == Strip(run.stdout)
             match == SearchPython(version_str)
         IN  IF Len(match) > 0
             THEN LET major == ParseInt(match[1])
                      minor == ParseInt(match[2])
                  IN  IF major >= 3 /\ minor >= 7
                      THEN Verdict(TRUE, <<"Python ", ToString(major), ".", ToString(minor),
                                           " (meets requirement: 3.7+)">>)
                      ELSE Verdict(FALSE, <<"Python ", ToString(major), ".", ToString(minor),
                                            " found but 3.7+ required">>)
             ELSE Verdict(TRUE, version_str)

\* what `git rev-parse --git-dir` can do
RevParseRuns ==
    { Completed(0, <<".git", NL>>, <<>>), Completed(128, <<>>, <<"fatal">>) }
    \cup {RunRaised(e) : e \in Exceptions}

\* what `git config user.name` and `git config user.email` can do
GitConfigRuns ==
    { Completed(0, <<"value", NL>>, <<>>), Completed(0, <<" ", NL>>, <<>>),
      Completed(1, <<>>, <<>>) }
    \cup {RunRaised(e) : e \in Exceptions}

\* returncode == 0 and stdout.strip()
HasValue(run) == run.returncode = 0 /\ Len(Strip(run.stdout)) > 0

check_git_config(revparse, name, email) ==
    IF Raised(revparse) THEN Verdict(FALSE, <<"Git check failed: ", revparse.outcome>>)
    ELSE IF revparse.returncode # 0 THEN Verdict(FALSE, <<"Not a git repository">>)
    ELSE IF Raised(name) THEN Verdict(FALSE, <<"Git check failed: ", name.outcome>>)
    ELSE IF Raised(email) THEN Verdict(FALSE, <<"Git check failed: ", email.outcome>>)
    ELSE IF HasValue(name) /\ HasValue(email) THEN Verdict(TRUE, <<"Git user configured">>)
    ELSE Verdict(FALSE, <<"Git user.name or user.email not configured">>)

\* what `go mod verify` can do
VerifyRuns ==
    { Completed(0, <<"all", " ", "modules", " ", "verified", NL>>, <<>>),
      Completed(1, <<>>, <<"mismatch">>) }
    \cup {RunRaised(e) : e \in Exceptions}

check_go_modules(has_go_mod, has_go_sum, verify) ==
    IF ~has_go_mod THEN Verdict(FALSE, <<"go.mod not found">>)
    ELSE IF ~has_go_sum
    THEN Verdict(FALSE, <<"go.sum not found - run 'hugo mod get' or 'hugo mod tidy'">>)
    ELSE IF Raised(verify) THEN Verdict(FALSE, <<"Could not verify Go modules: ", verify.outcome>>)
    ELSE IF verify.returncode = 0 THEN Verdict(TRUE, <<"Go modules verified">>)
    ELSE Verdict(FALSE, <<"Go module verification failed: ">> \o verify.stderr)

\* the run succeeds without a configured git identity
all_required_ok_without_identity(hugo_ok, go_found, python_ok, git_found, git_config_ok) ==
    hugo_ok /\ go_found /\ python_ok /\ git_found

\* validate(): all_required_ok
all_required_ok(hugo_ok, go_found, python_ok, git_found, git_config_ok) ==
    hugo_ok /\ go_found /\ python_ok /\ git_found /\ git_config_ok

\* version or message, as validate() prints a probe
VersionOrMessage(check) == IF Truthy(check.version) THEN check.version[1] ELSE Shown(check.message)

Printed(label, ok, text) == [lines |-> Append(report.lines, <<label, ok, text>>), status |-> report.status]

NoProbe == [kind |-> "none"]

\* the probes check_command can meet for cmd
CommandProbes(cmd, runs) ==
    {[kind |-> "check_command", cmd |-> cmd, onPath |-> FALSE, run |-> NotRun]}
    \cup {[kind |-> "check_command", cmd |-> cmd, onPath |-> TRUE, run |-> r] : r \in runs}

\* validate(): hugo_ok, hugo_msg = self.check_hugo_version()
CheckHugoVersion ==
    /\ pc = "check_hugo_version"
    /\ \E p \in CommandProbes("hugo", HugoRuns) :
          /\ probe' = p
          /\ hugo_check' = check_command("hugo", TRUE, p.onPath, p.run)
    /\ hugo' = check_hugo_version(hugo_check')
    /\ report' = Printed("Hugo Extended", hugo'.ok, hugo'.msg)
    /\ pc' = "check_go"
    /\ UNCHANGED <<checks, go_check, python, git_check, git_config, go_mod, make_check,
                   success, exit_code, configVars, contentVars, script, first_run>>

\* validate(): go_check = self.check_command("go", "version", required=True)
CheckGo ==
    /\ pc = "check_go"
    /\ \E p \in CommandProbes("go", VersionRuns("go")) :
          /\ probe' = p
          /\ go_check' = check_command("go", TRUE, p.onPath, p.run)
    /\ checks' = Append(checks, go_check')
    /\ report' = Printed("Go", go_check'.found, VersionOrMessage(go_check'))
    /\ pc' = "check_python_version"
    /\ UNCHANGED <<hugo_check, hugo, python, git_check, git_config, go_mod, make_check,
                   success, exit_code, configVars, contentVars, script, first_run>>

\* validate(): python_ok, python_msg = self.check_python_version()
CheckPythonVersion ==
    /\ pc = "check_python_version"
    /\ \E r \in PythonRuns :
          /\ probe' = [kind |-> "python", run |-> r]
          /\ python' = check_python_version(r)
    /\ report' = Printed("Python", python'.ok, python'.msg)
    /\ pc' = "check_git"
    /\ UNCHANGED <<checks, hugo_check, hugo, go_check, git_check, git_config, go_mod,
                   make_check, success, exit_code, configVars, contentVars, script, first_run>>

\* validate(): git_check = self.check_command("git", "version", required=True)
CheckGit ==
    /\ pc = "check_git"
    /\ \E p \in CommandProbes("git", VersionRuns("git")) :
          /\ probe' = p
          /\ git_check' = check_command("git", TRUE, p.onPath, p.run)
    /\ checks' = Append(checks, git_check')
    /\ report' = Printed("Git", git_check'.found, VersionOrMessage(git_check'))
    /\ pc' = "check_git_config"
    /\ UNCHANGED <<hugo_check, hugo, go_check, python, git_config, go_mod, make_check,
                   success, exit_code, configVars, contentVars, script, first_run>>

\* validate(): git_config_ok, git_config_msg = self.check_git_config()
CheckGitConfig ==
    /\ pc = "check_git_config"
    /\ \E rp \in RevParseRuns, nm \in GitConfigRuns, em \in GitConfigRuns :
          /\ probe' = [kind |-> "git_config", revparse |-> rp, name |-> nm, email |-> em]
          /\ git_config' = check_git_config(rp, nm, em)
    /\ report' = Printed("Git Configuration", git_config'.ok, git_config'.msg)
    /\ pc' = "check_go_modules"
    /\ UNCHANGED <<checks, hugo_check, hugo, go_check, python, git_check, go_mod,
                   make_check, success, exit_code, configVars, contentVars, script, first_run>>

\* validate(): the Go modules check, skipped when go was not found
CheckGoModules ==
    /\ pc = "check_go_modules"
    /\ IF go_check.found
       THEN \E gm \in BOOLEAN, gs \in BOOLEAN, v \in VerifyRuns :
               /\ probe' = [kind |-> "go_modules", go_mod |-> gm, go_sum |-> gs, verify |-> v]
               /\ go_mod' = check_go_modules(gm, gs, v)
       ELSE /\ probe' = NoProbe
            /\ go_mod' = Verdict(FALSE, <<"Skipped (Go not found)">>)
    /\ report' = Printed("Go Modules", go_mod'.ok, go_mod'.msg)
    /\ pc' = "check_make"
    /\ UNCHANGED <<checks, hugo_check, hugo, go_check, python, git_check, git_config,
                   make_check, success, exit_code, configVars, contentVars, script, first_run>>

\* validate(): make_check = self.check_command("make", "--version", required=False)
CheckMake ==
    /\ pc = "check_make"
    /\ \E p \in CommandProbes("make", VersionRuns("make")) :
          /\ probe' = p
          /\ make_check' = check_command("make", FALSE, p.onPath, p.run)
    /\ report' = Printed("Make", make_check'.found,
                         IF Truthy(make_check'.version) THEN make_check'.version[1]
                         ELSE <<"Not found (optional)">>)
    /\ pc' = "overall_result"
    /\ UNCHANGED <<checks, hugo_check, hugo, go_check, python, git_check, git_config,
                   go_mod, success, exit_code, configVars, contentVars, script, first_run>>

\* validate(): return all_required_ok
EnvOverallResult ==
    /\ pc = "overall_result"
    /\ success' = all_required_ok(hugo.ok, go_check.found, python.ok, git_check.found,
                                  git_config.ok)
    /\ pc' = "print_summary"
    /\ UNCHANGED <<envVars, exit_code, report, configVars, contentVars, script, first_run>>

EnvPrintSummary ==
    /\ pc = "print_summary"
    /\ report' = [lines  |-> report.lines,
                  status |-> IF success THEN "Development environment is properly configured!"
                             ELSE "Development environment setup incomplete"]
    /\ pc' = "exit"
    /\ UNCHANGED <<envVars, success, exit_code, configVars, contentVars, script, first_run>>

EnvExit ==
    /\ pc = "exit"
    /\ exit_code' = exit_status(success)
    /\ pc' = "done"
    /\ UNCHANGED <<envVars, success, report, configVars, contentVars, script, first_run>>

NextEnv ==
    \/ CheckHugoVersion
    \/ CheckGo
    \/ CheckPythonVersion
    \/ CheckGit
    \/ CheckGitConfig
    \/ CheckGoModules
    \/ CheckMake
    \/ EnvOverallResult
    \/ EnvPrintSummary
    \/ EnvExit

(***************************************************************************)
(* Initial states and specifications: one script runs, the others are idle  *)
(***************************************************************************)

\* ContentValidator.__init__: self.stats
NoStats ==
    [files_checked |-> 0, internal_links_found |-> 0,
     external_links_found |-> 0, images_found |-> 0]

\* the state of a script that is not the one running
ConfigIdle ==
    /\ config_path = [status |-> "missing", text |-> <<>>]
    /\ config_content = <<>>
    /\ results = <<>>

ContentIdle ==
    /\ content_dir = [exists |-> FALSE, files |-> <<>>]
    /\ markdown_files = <<>>
    /\ file_index = 0
    /\ issues = <<>>
    /\ stats = NoStats

NoCheck == ToolCheck("", FALSE, FALSE, Nothing, Nothing)

NoVerdict == Verdict(FALSE, <<>>)

EnvIdle ==
    /\ probe = NoProbe
    /\ checks = <<>>
    /\ hugo_check = NoCheck
    /\ hugo = NoVerdict
    /\ go_check = NoCheck
    /\ python = NoVerdict
    /\ git_check = NoCheck
    /\ git_config = NoVerdict
    /\ go_mod = NoVerdict
    /\ make_check = NoCheck

InitConfig ==
    /\ script = "validate_config.py"
    /\ first_run = <<>>
    /\ ContentIdle
    /\ EnvIdle
    /\ pc = "load_config"
    /\ \/ \E st \in {"missing", "unreadable"} : config_path = [status |-> st, text |-> <<>>]
       \/ \E n \in 0..MaxConfigLines : \E ls \in [1..n -> ConfigLines] :
             config_path = [status |-> "ok", text |-> Join(ls)]
    /\ config_content = <<>>
    /\ results = <<>>
    /\ success = None
    /\ exit_code = None
    /\ report = NoReport

InitContent ==
    /\ script = "validate_content.py"
    /\ first_run = <<>>
    /\ ConfigIdle
    /\ EnvIdle
    /\ pc = "find_markdown_files"
    /\ \/ content_dir = [exists |-> FALSE, files |-> <<>>]
       \/ \E shapes \in ListShapes : \E pool \in [1..TotalLines(shapes) -> ContentLines] :
             content_dir = [exists |-> TRUE, files |-> BuildFiles(shapes, pool)]
    /\ markdown_files = <<>>
    /\ file_index = 0
    /\ issues = <<>>
    /\ stats = NoStats
    /\ success = None
    /\ exit_code = None
    /\ report = NoReport

InitEnv ==
    /\ script = "validate_env.py"
    /\ first_run = <<>>
    /\ ConfigIdle
    /\ ContentIdle
    /\ EnvIdle
    /\ pc = "check_hugo_version"
    /\ success = None
    /\ exit_code = None
    /\ report = [status |-> None, lines |-> <<>>]

\* __init__: self.results = [] (self.issues = []), whatever an earlier run found
fresh_results_shared(earlier) == earlier

fresh_results(earlier) == <<>>

\* main() of validate_config.py is started again on the same file
ConfigRunAgain ==
    /\ script = "validate_config.py"
    /\ pc = "done"
    /\ first_run = <<>>
    /\ first_run' = <<results>>
    /\ config_content' = <<>>
    /\ results' = fresh_results(results)
    /\ success' = None
    /\ exit_code' = None
    /\ report' = NoReport
    /\ pc' = "load_config"
    /\ UNCHANGED <<script, config_path, contentVars, envVars>>

\* main() of validate_content.py is started again on the same directory
ContentRunAgain ==
    /\ script = "validate_content.py"
    /\ pc = "done"
    /\ first_run = <<>>
    /\ first_run' = <<issues>>
    /\ markdown_files' = <<>>
    /\ file_index' = 0
    /\ issues' = fresh_results(issues)
    /\ stats' = NoStats
    /\ success' = None
    /\ exit_code' = None
    /\ report' = NoReport
    /\ pc' = "find_markdown_files"
    /\ UNCHANGED <<script, content_dir, configVars, envVars>>

InitRerun ==
    /\ first_run = <<>>
    /\ EnvIdle
    /\ success = None
    /\ exit_code = None
    /\ report = NoReport
    /\ config_content = <<>>
    /\ results = <<>>
    /\ markdown_files = <<>>
    /\ file_index = 0
    /\ issues = <<>>
    /\ stats = NoStats
    /\ \/ /\ script = "validate_config.py"
          /\ pc = "load_config"
          /\ content_dir = [exists |-> FALSE, files |-> <<>>]
          /\ \/ \E st \in {"missing", "unreadable"} :
                   config_path = [status |-> st, text |-> <<>>]
             \/ \E n \in 0..MaxRerunPieces : \E ls \in [1..n -> ConfigLines] :
                   config_path = [status |-> "ok", text |-> Join(ls)]
       \/ /\ script = "validate_content.py"
          /\ pc = "find_markdown_files"
          /\ config_path = [status |-> "missing", text |-> <<>>]
          /\ \/ content_dir = [exists |-> FALSE, files |-> <<>>]
             \/ \E shapes \in {sh \in ListShapes : TotalLines(sh) <= MaxRerunLines} :
                   \E pool \in [1..TotalLines(shapes) -> ContentLines] :
                      content_dir = [exists |-> TRUE, files |-> BuildFiles(shapes, pool)]

NextRerun ==
    \/ NextConfig
    \/ NextContent
    \/ ConfigRunAgain
    \/ ContentRunAgain

\* n files like file
Copies(file, n) == [k \in 1..n |-> file]

\* a file that cannot be read: one error
UnreadablePage == [name |-> PageName, readable |-> FALSE, text |-> <<>>]

\* a page without front matter: one warning
PlainPage == [name |-> PageName, readable |-> TRUE, text |-> <<"#", " ", "H">>]

\* a section index holding a code block without language: one info
FencedIndex == [name |-> IndexName, readable |-> TRUE, text |-> Join(<<Fence, Fence>>)]

\* directories with up to MaxTierFiles files of each of the three kinds
InitReport ==
    /\ script = "validate_content.py"
    /\ first_run = <<>>
    /\ ConfigIdle
    /\ EnvIdle
    /\ pc = "find_markdown_files"
    /\ \E e, w, i \in 0..MaxTierFiles :
          content_dir = [exists |-> TRUE,
                         files  |-> Copies(UnreadablePage, e) \o Copies(PlainPage, w)
                                    \o Copies(FencedIndex, i)]
    /\ markdown_files = <<>>
    /\ file_index = 0
    /\ issues = <<>>
    /\ stats = NoStats
    /\ success = None
    /\ exit_code = None
    /\ report = NoReport

\* lines the code-fence scan tells apart: fences bare, indented, followed by a
\* blank or by a language, and lines that are no fence
FenceLines ==
    { Fence,
      <<" ">> \o Fence,
      Fence \o <<" ">>,
      Fence \o <<"p", "y">>,
      <<"t">>,
      <<"t">> \o Fence,
      <<Backtick, Backtick>> }

\* a directory with one page of up to MaxFenceLines such lines
InitFence ==
    /\ script = "validate_content.py"
    /\ first_run = <<>>
    /\ ConfigIdle
    /\ EnvIdle
    /\ pc = "find_markdown_files"
    /\ \E n \in 1..MaxFenceLines : \E ls \in [1..n -> FenceLines] :
          content_dir = [exists |-> TRUE,
                         files  |-> <<[name |-> PageName, readable |-> TRUE, text |-> Join(ls)]>>]
    /\ markdown_files = <<>>
    /\ file_index = 0
    /\ issues = <<>>
    /\ stats = NoStats
    /\ success = None
    /\ exit_code = None
    /\ report = NoReport

SpecConfig == InitConfig /\ [][NextConfig]_vars

SpecContent == InitContent /\ [][NextContent]_vars

SpecEnv == InitEnv /\ [][NextEnv]_vars

SpecRerun == InitRerun /\ [][NextRerun]_vars

SpecReport == InitReport /\ [][NextContent]_vars

SpecFence == InitFence /\ [][NextContent]_vars

(***************************************************************************)
(* Properties of the configuration validator                               *)
(***************************************************************************)
RequiredNames == {required_fields[i][1] : i \in 1..Len(required_fields)}

Mentions(r, word) == word \in SeqToSet(r.message)

ConfigLoaded == script = "validate_config.py" /\ config_path.status = "ok"

\* C1: the exit code is 0 exactly when the configuration file could be loaded
\* and the search for each of baseURL, title and languageCode succeeds; in
\* every other case it is 1, whatever warnings or infos were recorded.
C1_ExitCode ==
    (script = "validate_config.py" /\ pc = "done") =>
        /\ exit_code \in {0, 1}
        /\ exit_code = 0 <=>
              (ConfigLoaded /\ \A f \in RequiredNames : SearchRequired(config_path.text, f))

C1_Witness ==
    /\ script = "validate_config.py"
    /\ pc = "done"
    /\ exit_code = 0
    /\ \E i \in 1..Len(results) : results[i].severity = "warning" /\ ~results[i].passed

\* the line without its blanks
Squeeze(line) == SelectSeq(line, LAMBDA t : t # " ")

\* the line assigns something to field: field = ...
IsAssignmentLine(line, field) ==
    LET q == Squeeze(line) IN Len(q) >= 2 /\ q[1] = field /\ q[2] = "="

\* the line assigns a value to field: field = value
IsValuedAssignment(line, field) ==
    LET q == Squeeze(line) IN Len(q) >= 3 /\ q[1] = field /\ q[2] = "="

AboutField(rs, field) == {k \in 1..Len(rs) : Mentions(rs[k], field)}

\* the run over a loaded configuration has ended
ConfigDone == ConfigLoaded /\ pc = "done"

\* C2: at the end of a run over a loaded configuration, results holds exactly
\* one finding about each required field F; it is an unpassed error mentioning
\* F when no line of the configuration assigns to F, and a passed info, with no
\* error mentioning F, when some line reads F = value.
C2_RequiredFields ==
    ConfigDone =>
        LET lines == SplitLines(config_path.text)
        IN  \A f \in RequiredNames :
                LET about == AboutField(results, f)
                IN  /\ Cardinality(about) = 1
                    /\ (\A i \in 1..Len(lines) : ~IsAssignmentLine(lines[i], f))
                          => \A k \in about : results[k].severity = "error" /\ ~results[k].passed
                    /\ (\E i \in 1..Len(lines) : IsValuedAssignment(lines[i], f))
                          => \A k \in about : results[k].severity = "info" /\ results[k].passed

C2_Witness ==
    /\ ConfigDone
    /\ \E k \in AboutField(results, "baseURL") : results[k].severity = "info"
    /\ \E k \in AboutField(results, "title") : results[k].severity = "error"
    /\ Contains(config_path.text, <<"#", "title">>)

CountOf(rs, r) == Cardinality({k \in 1..Len(rs) : rs[k] = r})

UniqueInfos(rs) ==
    {k \in 1..Len(rs) : rs[k].severity = "info" /\ rs[k].passed
                        /\ rs[k].message[1] = "Menu weights are unique ("}

\* C8: at the end of a run over a loaded configuration, with w the weights
\* collected from the [[menu.main]] blocks: if w holds a repeated value, results holds the
\* duplicate-weight warning exactly once and no unique-weights info; if w is
\* not empty and its values are distinct, no warning and exactly one passed
\* unique-weights info; if w is empty, neither.
C8_MenuWeights ==
    ConfigDone =>
        LET w    == MenuWeights(config_path.text)
            dups == CountOf(results, DuplicateWarning)
            uniq == Cardinality(UniqueInfos(results))
        IN  /\ Len(w) # Cardinality(SeqToSet(w)) => dups = 1 /\ uniq = 0
            /\ (Len(w) > 0 /\ Len(w) = Cardinality(SeqToSet(w))) => dups = 0 /\ uniq = 1
            /\ Len(w) = 0 => dups = 0 /\ uniq = 0

C8_Witness ==
    /\ ConfigDone
    /\ MenuWeights(config_path.text) = <<2, 2, 2>>
    /\ CountOf(results, DuplicateWarning) = 1

(***************************************************************************)
(* Properties of the content validator                                     *)
(***************************************************************************)
ContentRuns == script = "validate_content.py"

ErrorIssues == {k \in 1..Len(issues) : issues[k].severity = "error"}

\* C3: the content validator exits with 0 exactly when issues holds no finding
\* of severity error; warnings and infos never make the run fail.
C3_ContentResult ==
    (ContentRuns /\ pc = "done") =>
        /\ exit_code \in {0, 1}
        /\ exit_code = 0 <=> ErrorIssues = {}

C3_Witness ==
    /\ ContentRuns
    /\ pc = "done"
    /\ exit_code = 0
    /\ \E k \in 1..Len(issues) : issues[k].severity = "warning"
    /\ \E k \in 1..Len(issues) : issues[k].severity = "info"

ConfigLoadFailed == script = "validate_config.py" /\ config_path.status # "ok"

ContentLoadFailed == ContentRuns /\ ~content_dir.exists

\* C4: a load error (configuration file missing or unreadable, content
\* directory missing) leaves exactly one finding in the findings list of the
\* run, of severity error, and the run fails.
C4_LoadErrorRecorded ==
    pc = "done" =>
        /\ ConfigLoadFailed =>
              /\ Len(results) = 1
              /\ results[1].severity = "error" /\ ~results[1].passed
              /\ exit_code = 1
        /\ ContentLoadFailed =>
              /\ Len(issues) = 1
              /\ issues[1].severity = "error"
              /\ exit_code = 1

\* files validate_all is done with
Processed ==
    IF pc = "validate_file" THEN file_index - 1
    ELSE IF pc = "find_markdown_files" THEN 0
    ELSE Len(markdown_files)

FileAt(fp) == content_dir.files[fp.id]

IssuesOf(fp) == SelectSeq(issues, LAMBDA i : i.file_path = fp)

C5_Recorded ==
    ContentRuns =>
        /\ \A j \in 1..Processed :
              ~FileAt(markdown_files[j]).readable =>
                  LET mine == IssuesOf(markdown_files[j])
                  IN  /\ Len(mine) = 1
                      /\ mine[1].severity = "error"
                      /\ mine[1].category = "structure"
                      /\ mine[1].line_number = 0
        /\ stats.files_checked =
              Cardinality({j \in 1..Processed : FileAt(markdown_files[j]).readable})
        /\ pc = "done" => Processed = Len(markdown_files)

C5_Kept ==
    pc = "validate_file" =>
        /\ Len(issues') >= Len(issues)
        /\ SubSeq(issues', 1, Len(issues)) = issues
        /\ \A k \in (Len(issues) + 1)..Len(issues') :
              issues'[k].file_path = markdown_files[file_index]
        /\ pc' = "validate_file" <=> file_index < Len(markdown_files)

\* C5: a file that cannot be read leaves exactly one finding of its own, an
\* error of category structure at line 0; every file of the list is validated,
\* whatever happened to the files before it; and validating a file only
\* appends findings of that file, the findings recorded before stay as they are.
C5_Isolation == [](C5_Recorded) /\ [][C5_Kept]_vars

C5_Witness ==
    /\ ContentRuns
    /\ pc = "done"
    /\ Len(markdown_files) = 2
    /\ ~FileAt(markdown_files[1]).readable
    /\ FileAt(markdown_files[2]).readable
    /\ Len(IssuesOf(markdown_files[1])) = 1
    /\ Len(IssuesOf(markdown_files[2])) = 2

\* the markdown links [text](url) of a line, the text may be empty; an image
\* ![alt](url) is not a link
MarkdownLinks(line) ==
    {m \in UNION {SeqToSet(BracketMatch(line, i, 0, i)) : i \in 1..Len(line)} :
        m.start = 1 \/ line[m.start - 1] # "!"}

FileLines(fp) == SplitLines(FileAt(fp).text)

IssuesAt(fp, n, sev, cat) ==
    {k \in 1..Len(issues) :
        /\ issues[k].file_path = fp /\ issues[k].line_number = n
        /\ issues[k].severity = sev /\ issues[k].category = cat}

\* C6: for every markdown link of every validated file: a url starting with
\* http:// yields a warning of category link at the line of the link, a url
\* starting with https:// yields no non-HTTPS warning for it, and an empty or
\* blank link text yields a warning of category accessibility at that line,
\* whatever the url is.
C6_LinkRule ==
    (ContentRuns /\ pc = "done") =>
        \A j \in 1..Len(markdown_files) :
            LET fp == markdown_files[j]
            IN  FileAt(fp).readable =>
                   \A n \in 1..Len(FileLines(fp)) : \A m \in MarkdownLinks(FileLines(fp)[n]) :
                       /\ StartsWith(m.url, Http) => IssuesAt(fp, n, "warning", "link") # {}
                       /\ StartsWith(m.url, Https) =>
                             \A k \in IssuesAt(fp, n, "warning", "link") :
                                 ~Contains(issues[k].message, Take(m.url, Len(Https) + 1))
                       /\ Len(Strip(m.text)) = 0 =>
                             \E k \in IssuesAt(fp, n, "warning", "accessibility") :
                                 issues[k] = EmptyLinkText(fp, n)

\* a url as the messages are to show it: cut at the display cap and marked when
\* longer than the cap, as it is otherwise
ShownUrl(url) ==
    IF Len(url) > MAX_URL_DISPLAY_LENGTH
    THEN Take(url, MAX_URL_DISPLAY_LENGTH) \o <<Ellipsis>>
    ELSE url

\* C7: every non-HTTPS link warning and every image-without-alt-text warning
\* shows the url it was raised for cut to its first 50 characters and followed
\* by the ellipsis marker when the url is longer than 50 characters, and
\* unmodified, with no marker, when it is not.
C7_Truncation ==
    ContentRuns =>
        \A k \in 1..Len(issues) :
            LET is == issues[k]
            IN  /\ is.message[1] = "Non-HTTPS link found: " =>
                      \E m \in SeqToSet(FindIter(FileLines(is.file_path)[is.line_number], 1, "link_pattern")) :
                          is.message = <<"Non-HTTPS link found: ">> \o ShownUrl(m.url)
                /\ is.message[1] = "Image without alt text: " =>
                      \E m \in SeqToSet(FindIter(FileLines(is.file_path)[is.line_number], 1, "image_pattern")) :
                          is.message = <<"Image without alt text: ">> \o ShownUrl(m.url)
                                       \o <<" (bad for screen readers)">>

(***************************************************************************)
(* Properties of the environment validator                                 *)
(***************************************************************************)
EnvRuns == script = "validate_env.py"

\* the first line of the hugo version output names the extended build
IsExtended(check) ==
    Len(check.version) = 1
    /\ \E i \in 1..Len(check.version[1]) : check.version[1][i] \in {"extended", "Extended"}

GitIdentityAsked ==
    /\ probe.kind = "git_config"
    /\ ~Raised(probe.revparse) /\ probe.revparse.returncode = 0
    /\ ~Raised(probe.name) /\ ~Raised(probe.email)

EmailLacking == probe.email.returncode # 0 \/ \A i \in 1..Len(probe.email.stdout) :
                                                    probe.email.stdout[i] \in {" ", NL}

NotConfigured == Verdict(FALSE, <<"Git user.name or user.email not configured">>)

\* C9: the environment validator exits with 0 exactly when hugo was found and
\* is the extended build, go was found, the Python check passed, git was found
\* and the git identity check passed; a hugo binary missing from PATH gives
\* found = false and exit code 1; inside a git repository, a missing or blank
\* user.email fails the Git Configuration check, and with it the run, also when
\* user.name is set.  The Go-modules check and the make probe have no part in it.
C9_EnvResult ==
    EnvRuns =>
        /\ pc = "done" =>
              /\ exit_code \in {0, 1}
              /\ exit_code = 0 <=>
                    /\ hugo_check.found /\ IsExtended(hugo_check)
                    /\ go_check.found
                    /\ python.ok
                    /\ git_check.found
                    /\ git_config.ok
        /\ (pc = "check_go" /\ ~probe.onPath) => ~hugo_check.found /\ ~hugo.ok
        /\ (pc = "check_go_modules" /\ GitIdentityAsked /\ EmailLacking) =>
              git_config = NotConfigured

C9_Witness ==
    /\ EnvRuns
    /\ pc = "done"
    /\ exit_code = 1
    /\ hugo.ok /\ go_check.found /\ python.ok /\ git_check.found
    /\ git_config = NotConfigured
    /\ go_mod.ok /\ make_check.found

\* the probe result check_command returned last
LastCheck ==
    CASE probe.cmd = "hugo" -> hugo_check
      [] probe.cmd = "go" -> go_check
      [] probe.cmd = "git" -> git_check
      [] probe.cmd = "make" -> make_check

VersionCommandFailed == probe.kind = "check_command" /\ probe.onPath /\ Raised(probe.run)

\* C10 as stated: when the version command of a tool times out or cannot be
\* launched, check_command returns a probe result with found = false and a
\* descriptive message.
C10_HangIsNotFound ==
    (EnvRuns /\ VersionCommandFailed) =>
        ~LastCheck.found /\ Truthy(LastCheck.message)

\* C10 as amended: check_command always returns a probe result; found is the
\* outcome of the PATH lookup alone; when the version command of a tool found
\* in PATH times out or cannot be launched, the result has found = true, the
\* version "Unknown" and a message telling that the version check failed; when
\* the tool is not in PATH, the result has found = false and the message
\* "Not found in PATH".
C10_HangIsUnknownVersion ==
    (EnvRuns /\ probe.kind = "check_command") =>
        /\ LastCheck.tool = probe.cmd
        /\ LastCheck.found = probe.onPath
        /\ VersionCommandFailed =>
              /\ LastCheck.version = Some(<<"Unknown">>)
              /\ Truthy(LastCheck.message)
              /\ LastCheck.message[1][1] = "Found but version check failed: "
        /\ ~probe.onPath =>
              /\ LastCheck.version = Nothing
              /\ LastCheck.message = Some(<<"Not found in PATH">>)

C10_Witness ==
    /\ EnvRuns
    /\ VersionCommandFailed
    /\ probe.cmd = "go"
    /\ probe.run.outcome = "TimeoutExpired"
    /\ go_check.found
    /\ go_check.version = Some(<<"Unknown">>)

(***************************************************************************)
(* Properties of repeated runs                                             *)
(***************************************************************************)
\* the findings list of the running script
Findings == IF script = "validate_config.py" THEN results ELSE issues

SecondRunOver == first_run # <<>> /\ pc = "done"

PythonParsed ==
    /\ script = "validate_env.py"
    /\ probe.kind = "python"
    /\ ~Raised(probe.run)
    /\ Len(SearchPython(Strip(probe.run.stdout))) > 0

\* (major, minor) is at least (3, 7) in version order
AtLeast37(major, minor) == major > 3 \/ (major = 3 /\ minor >= 7)

\* C16: when the output of python3 --version parses as Python MAJOR.MINOR, the
\* check succeeds exactly when (MAJOR, MINOR) is at least 3.7 in version order,
\* so that 4.0 passes, and a failed check says that 3.7+ is required.
C16_VersionOrder ==
    PythonParsed =>
        LET match == SearchPython(Strip(probe.run.stdout))
        IN  /\ python.ok <=> AtLeast37(ParseInt(match[1]), ParseInt(match[2]))
            /\ ~python.ok => python.msg[Len(python.msg)] = " found but 3.7+ required"

(***************************************************************************)
(* Properties of the final status line                                     *)
(***************************************************************************)
\* a finding of warning severity was recorded during the run
WarningRecorded == \E k \in 1..Len(Findings) : Findings[k].severity = "warning"

\* C14: the report of a finished run ends with one status, which is FAILED
\* exactly when the exit code is 1, PASSED WITH WARNINGS exactly when the run
\* succeeded and a finding of warning severity was recorded, and PASSED exactly
\* when the run succeeded and no finding of warning severity was recorded.
C14_StatusLine ==
    (script = "validate_config.py" /\ pc = "done") =>
        /\ report.status \in {"FAILED", "PASSED WITH WARNINGS", "PASSED"}
        /\ report.status = "FAILED" <=> exit_code = 1
        /\ report.status = "PASSED WITH WARNINGS" <=> (exit_code = 0 /\ WarningRecorded)
        /\ report.status = "PASSED" <=> (exit_code = 0 /\ ~WarningRecorded)

(***************************************************************************)
(* Properties of the image rule                                            *)
(***************************************************************************)
\* the markdown images ![alt](url) of a line, the alt text may be empty
MarkdownImages(line) ==
    UNION {SeqToSet(BracketMatch(line, i + 1, 0, i)) : i \in {p \in 1..Len(line) : line[p] = "!"}}

BlankAlt(line) == {m \in MarkdownImages(line) : \A c \in 1..Len(m.text) : m.text[c] = " "}

\* the missing-alt-text warnings raised at line n of fp
MissingAlt(fp, n) ==
    {k \in IssuesAt(fp, n, "warning", "accessibility") :
        issues[k].message[1] = "Image without alt text: "}

\* C12: at every line of every validated file there are exactly as many
\* missing-alt-text warnings (severity warning, category accessibility) as the
\* line has images with an empty or blank alt text, every such image being
\* named by one of them; images with other alt text add none.
C12_ImageRule ==
    (ContentRuns /\ pc = "done") =>
        \A j \in 1..Len(markdown_files) :
            LET fp == markdown_files[j]
            IN  FileAt(fp).readable =>
                   \A n \in 1..Len(FileLines(fp)) :
                       /\ Cardinality(MissingAlt(fp, n)) = Cardinality(BlankAlt(FileLines(fp)[n]))
                       /\ \A m \in BlankAlt(FileLines(fp)[n]) :
                             \E k \in MissingAlt(fp, n) :
                                 issues[k].message = ImageMessage(m.url)

C12_Witness ==
    /\ ContentRuns
    /\ pc = "done"
    /\ \E j \in 1..Len(markdown_files) : \E n \in 1..Len(FileLines(markdown_files[j])) :
          LET line == FileLines(markdown_files[j])[n]
          IN  /\ \E m \in BlankAlt(line) : Len(m.text) = 0
              /\ \E m \in BlankAlt(line) : Len(m.text) > 0
              /\ MarkdownImages(line) \ BlankAlt(line) # {}
              /\ Cardinality(MissingAlt(markdown_files[j], n)) = 2

(***************************************************************************)
(* Properties of the lists of the content report                           *)
(***************************************************************************)
\* the findings of a severity, in finding order
Tier(sev) == SelectSeq(issues, LAMBDA i : i.severity = sev)

\* the finding lines the report shows for a severity, and the number its
\* suffix line states (0: no suffix line); for info findings the report has
\* one line with their number and nothing else
ListedOf(sev) ==
    IF sev = "error" THEN report.errors.shown
    ELSE IF sev = "warning" THEN report.warnings.shown
    ELSE <<>>

SuffixOf(sev) ==
    IF sev = "error" THEN report.errors.more
    ELSE IF sev = "warning" THEN report.warnings.more
    ELSE 0

Line(i) == <<i.file_path, i.line_number, i.message>>

ReportPrinted == ContentRuns /\ pc = "done"

\* C13 as stated: for each of the tiers error, warning and info the report
\* lists at most 10 findings, taken in finding order, states (count - 10) more
\* in a suffix line when the tier holds more than 10, and has no suffix line
\* otherwise.
C13_EveryTierBounded ==
    ReportPrinted =>
        \A sev \in {"error", "warning", "info"} :
            /\ Len(ListedOf(sev)) <= MAX_DISPLAYED_ISSUES
            /\ Len(ListedOf(sev)) <= Len(Tier(sev))
            /\ \A x \in 1..Len(ListedOf(sev)) : ListedOf(sev)[x] = Line(Tier(sev)[x])
            /\ SuffixOf(sev) = IF Len(Tier(sev)) > MAX_DISPLAYED_ISSUES
                               THEN Len(Tier(sev)) - MAX_DISPLAYED_ISSUES ELSE 0

\* C13: for the tiers error and warning the report lists the first 10
\* findings of the tier, or all of them when there are fewer, in finding order,
\* states (count - 10) more in a suffix line when the tier holds more than 10,
\* and has no suffix line otherwise; of the info findings it prints the number
\* and nothing else.
C13_ErrorAndWarningBounded ==
    ReportPrinted =>
        /\ \A sev \in {"error", "warning"} :
              /\ Len(ListedOf(sev)) =
                    (IF Len(Tier(sev)) > MAX_DISPLAYED_ISSUES
                     THEN MAX_DISPLAYED_ISSUES ELSE Len(Tier(sev)))
              /\ \A x \in 1..Len(ListedOf(sev)) : ListedOf(sev)[x] = Line(Tier(sev)[x])
              /\ SuffixOf(sev) = IF Len(Tier(sev)) > MAX_DISPLAYED_ISSUES
                                 THEN Len(Tier(sev)) - MAX_DISPLAYED_ISSUES ELSE 0
        /\ report.info = Len(Tier("info"))

C13_Witness ==
    /\ ReportPrinted
    /\ Len(Tier("error")) = MAX_DISPLAYED_ISSUES
    /\ Len(Tier("warning")) > MAX_DISPLAYED_ISSUES
    /\ Len(Tier("info")) > MAX_DISPLAYED_ISSUES
    /\ report.errors.more = 0
    /\ report.warnings.more = 1
    /\ Len(report.warnings.shown) = MAX_DISPLAYED_ISSUES

(***************************************************************************)
(* Properties of the code-fence scan                                       *)
(***************************************************************************)
\* the position of the first character of line that is not a blank, 0 if none
FirstInk(line) ==
    IF \A k \in 1..Len(line) : line[k] = " " THEN 0
    ELSE CHOOSE i \in 1..Len(line) : line[i] # " " /\ \A k \in 1..(i - 1) : line[k] = " "

\* the stripped line starts with a triple backtick
IsFenceLine(line) ==
    LET i == FirstInk(line)
    IN  /\ i # 0 /\ i + 2 <= Len(line)
        /\ \A k \in i..(i + 2) : line[k] = Backtick

\* nothing but blanks behind the backticks of a fence line
BareFence(line) == \A k \in (FirstInk(line) + 3)..Len(line) : line[k] = " "

\* the flag when line n is met: it starts false and every fence line before n
\* has toggled it
InBlockAt(lines, n) ==
    Cardinality({k \in 1..(n - 1) : IsFenceLine(lines[k])}) % 2 = 1

\* the missing-language findings raised at line n of fp
MissingLanguage(fp, n) ==
    {k \in IssuesAt(fp, n, "info", "formatting") :
        issues[k].message[1] = "Code block without language specification - consider adding for syntax highlighting"}

\* C15: with a flag that starts false, is toggled by every line whose stripped
\* text starts with a triple backtick, whatever follows the backticks, and by
\* no other line, one missing-language info finding is raised at exactly those
\* fence lines that are met while the flag is false and have nothing but blanks
\* behind the backticks; a fence line met while the flag is true raises none.
C15_FenceScan ==
    (ContentRuns /\ pc = "done") =>
        \A j \in 1..Len(markdown_files) :
            LET fp    == markdown_files[j]
                lines == FileLines(fp)
            IN  FileAt(fp).readable =>
                   \A n \in 1..Len(lines) :
                       Cardinality(MissingLanguage(fp, n)) =
                           (IF /\ IsFenceLine(lines[n])
                               /\ ~InBlockAt(lines, n)
                               /\ BareFence(lines[n])
                            THEN 1 ELSE 0)

\* a block opened with a language and closed by a bare fence, then a bare
\* fence that opens the next block: only the last one is reported
C15_Witness ==
    /\ ContentRuns
    /\ pc = "done"
    /\ Len(markdown_files) = 1
    /\ LET fp    == markdown_files[1]
           lines == FileLines(fp)
       IN  /\ Len(lines) >= 4
           /\ IsFenceLine(lines[1]) /\ ~BareFence(lines[1])
           /\ ~IsFenceLine(lines[2])
           /\ IsFenceLine(lines[3]) /\ BareFence(lines[3]) /\ MissingLanguage(fp, 3) = {}
           /\ IsFenceLine(lines[4]) /\ BareFence(lines[4]) /\ MissingLanguage(fp, 4) # {}

====
